---------------------------- MODULE Spec2Model ----------------------------
(***************************************************************************)
(* Model of automation_lib/generic_libraries/libraries/web/page_base.py:   *)
(* the locator resolver PageBase.__get_by and the retry-wrapped actions    *)
(* click, set_field, get_attribute and find_child_element.                 *)
(*                                                                         *)
(* Python strings are sequences of one-character strings, so that split    *)
(* and the "in" test are computed as str.split and str.__contains__ do.    *)
(***************************************************************************)
EXTENDS Integers, Sequences, FiniteSets, TLC

VARIABLES
    op,        \* the method being called
    locator,   \* its locator argument: [type, s]
    pc,        \* "call" | "sleep" | "returned" | "raised"
    by,        \* outcome of a __get_by call: [kind, by, value, exc]
    tries,     \* _tries of the retry loop: attempts left
    slept,     \* seconds slept by the retry loop so far
    history,   \* one entry per executed attempt of the wrapped method
    ret,       \* outcome of the call as the caller sees it
    wait,      \* the WebDriverWait of the call: "NONE" | "POLLING" | "SATISFIED" | "TIMED_OUT" | "FAILED"
    polled,    \* what the polls of that wait met, in order
    waits,     \* WebDriverWait(...).until calls made by the call so far
    seq,       \* config.option.seq
    collected, \* the items as pytest collected them, before the hook
    customseq, \* config.getoption('customseq')
    items,     \* the collected items, by name
    browser,   \* DriverFactory._browser
    remote_flag, remote_url, desired_caps,   \* arguments of get_web_driver
    started,   \* the webdriver constructors called
    driver     \* what get_web_driver gave back

pageVars == <<op, locator, pc, by, tries, slept, history, ret>>
waitVars == <<wait, polled, waits>>
hookVars == <<seq, customseq, items, collected>>
factoryVars == <<browser, remote_flag, remote_url, desired_caps, started, driver>>

vars == <<pageVars, waitVars, hookVars, factoryVars>>

---------------------------------------------------------------------------
(* Bounds of the model *)

\* longest generated part of a locator string (after the optional fixed head)
MaxLen == 5

\* polls a WebDriverWait makes before its timeout elapses
MaxPolls == 2

\* most collected test items
MaxItems == 2

\* longest value of --customseq
MaxSeqLen == 3

---------------------------------------------------------------------------
(* Strings *)

Sep == <<"@", "@">>

\* class Strategy(Enum)
XPATH == <<"x", "p", "a", "t", "h">>
ID == <<"i", "d">>
CSS == <<"c", "s", "s">>
TAGNAME == <<"t", "a", "g", " ", "n", "a", "m", "e">>

StrategyValues == {XPATH, ID, CSS, TAGNAME}

\* selenium.webdriver.common.by.By, as used by __get_by
By_XPATH == "xpath"
By_ID == "id"
By_CSS_SELECTOR == "css selector"
By_TAG_NAME == "tag name"

\* s[i..] starts with t
StartsAt(s, i, t) ==
    /\ i + Len(t) - 1 <= Len(s)
    /\ \A k \in 1..Len(t) : s[i + k - 1] = t[k]

\* sep in s
Contains(s, sep) == \E i \in 1..Len(s) : StartsAt(s, i, sep)

\* s.find(sep) + 1, or 0 when sep does not occur
Find(s, sep) ==
    IF Contains(s, sep)
    THEN CHOOSE i \in 1..Len(s) :
            /\ StartsAt(s, i, sep)
            /\ \A j \in 1..(i - 1) : ~StartsAt(s, j, sep)
    ELSE 0

\* s.split(sep): every non-overlapping occurrence, scanned from the left
RECURSIVE Split(_, _)
Split(s, sep) ==
    LET i == Find(s, sep) IN
    IF i = 0
    THEN <<s>>
    ELSE <<SubSeq(s, 1, i - 1)>> \o Split(SubSeq(s, i + Len(sep), Len(s)), sep)

---------------------------------------------------------------------------
(* Exceptions and outcomes *)

\* an exception: its class, the fixed text of its message, whether str(e)
\* contains "is not clickable", the locator formatted into the message and
\* the text of the error it was built from
Exc(type, text, notclickable, loc, cause) ==
    [type |-> type, text |-> text, notclickable |-> notclickable,
     locator |-> loc, cause |-> cause]

NoExc == Exc("none", "", FALSE, <<>>, "")

NoBy == [kind |-> "none", by |-> "None", value |-> <<>>, exc |-> NoExc]

\* return (strategy, value)
ReturnBy(b, v) == [kind |-> "return", by |-> b, value |-> v, exc |-> NoExc]

\* raise e out of __get_by
RaiseBy(e) == [kind |-> "raise", by |-> "None", value |-> <<>>, exc |-> e]

---------------------------------------------------------------------------
(* PageBase.__get_by *)

\* __get_by defaulting to xpath instead of id
get_by_default_xpath(locator_with_strategy) ==
    LET s == IF ~Contains(locator_with_strategy, Sep)
             THEN XPATH \o Sep \o locator_with_strategy
             ELSE locator_with_strategy
        strategy_and_locator == Split(s, Sep)
        strategy == strategy_and_locator[1]
        loc == strategy_and_locator[2]
    IN  IF strategy = XPATH THEN ReturnBy(By_XPATH, loc)
        ELSE IF strategy = ID THEN ReturnBy(By_ID, loc)
        ELSE IF strategy = CSS THEN ReturnBy(By_CSS_SELECTOR, loc)
        ELSE IF strategy = TAGNAME THEN ReturnBy(By_TAG_NAME, loc)
        ELSE RaiseBy(Exc("Exception", "Incorrect locator specified", FALSE, s, ""))

\* __get_by with the css and tag name branches swapped
get_by_swapped(locator_with_strategy) ==
    LET s == IF ~Contains(locator_with_strategy, Sep)
             THEN ID \o Sep \o locator_with_strategy
             ELSE locator_with_strategy
        strategy_and_locator == Split(s, Sep)
        strategy == strategy_and_locator[1]
        loc == strategy_and_locator[2]
    IN  IF strategy = XPATH THEN ReturnBy(By_XPATH, loc)
        ELSE IF strategy = ID THEN ReturnBy(By_ID, loc)
        ELSE IF strategy = CSS THEN ReturnBy(By_TAG_NAME, loc)
        ELSE IF strategy = TAGNAME THEN ReturnBy(By_CSS_SELECTOR, loc)
        ELSE RaiseBy(Exc("Exception", "Incorrect locator specified", FALSE, s, ""))

\* __get_by falling back to id instead of raising
get_by_fallback(locator_with_strategy) ==
    LET s == IF ~Contains(locator_with_strategy, Sep)
             THEN ID \o Sep \o locator_with_strategy
             ELSE locator_with_strategy
        strategy_and_locator == Split(s, Sep)
        strategy == strategy_and_locator[1]
        loc == strategy_and_locator[2]
    IN  IF strategy = XPATH THEN ReturnBy(By_XPATH, loc)
        ELSE IF strategy = CSS THEN ReturnBy(By_CSS_SELECTOR, loc)
        ELSE IF strategy = TAGNAME THEN ReturnBy(By_TAG_NAME, loc)
        ELSE ReturnBy(By_ID, loc)

\* __get_by as written
get_by(locator_with_strategy) ==
    LET s == IF ~Contains(locator_with_strategy, Sep)
             THEN ID \o Sep \o locator_with_strategy
             ELSE locator_with_strategy
        strategy_and_locator == Split(s, Sep)
        strategy == strategy_and_locator[1]
        loc == strategy_and_locator[2]
    IN  IF strategy = XPATH THEN ReturnBy(By_XPATH, loc)
        ELSE IF strategy = ID THEN ReturnBy(By_ID, loc)
        ELSE IF strategy = CSS THEN ReturnBy(By_CSS_SELECTOR, loc)
        ELSE IF strategy = TAGNAME THEN ReturnBy(By_TAG_NAME, loc)
        ELSE RaiseBy(Exc("Exception", "Incorrect locator specified", FALSE, s, ""))

---------------------------------------------------------------------------
(* The parts of the state a call does not touch *)

NoWait == wait = "NONE" /\ polled = <<>> /\ waits = 0

NoHook == seq = FALSE /\ customseq = <<>> /\ items = <<>> /\ collected = <<>>

NoFactory ==
    /\ browser = <<>>
    /\ remote_flag = "None"
    /\ remote_url = "None"
    /\ desired_caps = "None"
    /\ started = <<>>
    /\ driver = "None"

---------------------------------------------------------------------------
(* Inputs of the resolver *)

Alphabet == {"@", "i", "d"}

\* every string over Alphabet of length at most n
StringsUpTo(n) == UNION {[1..k -> Alphabet] : k \in 0..n}

\* fixed heads: the four strategy names, wrong-case and unknown names
Heads ==
    {<<>>, XPATH, ID, CSS, TAGNAME,
     <<"X", "P", "A", "T", "H">>, <<"I", "d">>,
     <<"b", "o", "g", "u", "s">>, <<"t", "a", "g", "n", "a", "m", "e">>}

LocatorStrings == {h \o b : h \in Heads, b \in StringsUpTo(MaxLen)}

StrLocator(s) == [type |-> "str", s |-> s]

NoRet == [kind |-> "none", value |-> "None", exc |-> NoExc]

\* tries=5 of every @retry decorator
Tries == 5

InitGetBy ==
    /\ op = "__get_by"
    /\ locator \in {StrLocator(s) : s \in LocatorStrings}
    /\ pc = "call"
    /\ by = NoBy
    /\ tries = Tries
    /\ slept = 0
    /\ history = <<>>
    /\ ret = NoRet
    /\ NoWait
    /\ NoHook
    /\ NoFactory

\* one call of __get_by on the locator string
GetBy ==
    /\ op = "__get_by"
    /\ pc = "call"
    /\ by' = get_by(locator.s)
    /\ pc' = IF by'.kind = "return" THEN "returned" ELSE "raised"
    /\ UNCHANGED <<op, locator, tries, slept, history, ret, waitVars, hookVars, factoryVars>>

NextGetBy == GetBy

SpecGetBy == InitGetBy /\ [][NextGetBy]_vars

---------------------------------------------------------------------------
(* The driver and the elements: what one attempt of an action can meet *)

\* what one poll of presence_of_element_located does: the element is there,
\* or driver.find_element raises
PollOutcomes ==
    {"found", "NoSuchElementException", "StaleElementReferenceException"}

\* the polls a wait can make before its timeout elapses
PollSeqs == [1..MaxPolls -> PollOutcomes]

\* errors an element operation can raise, each with or without
\* "is not clickable" in its message
ElementErrorTypes ==
    {"StaleElementReferenceException", "ElementNotVisibleException",
     "ElementClickInterceptedException"}

ElementErrors ==
    {Exc(t, "Message", b, <<>>, "") : t \in ElementErrorTypes, b \in BOOLEAN}

\* NoExc: every element operation of the attempt succeeds
ElementOutcomes == {NoExc} \cup ElementErrors

\* the element operations of set_field, in the order it makes them
SetFieldOps == <<"send_keys", "clear", "click", "send_keys">>

Return(v) == [kind |-> "return", value |-> v, exc |-> NoExc]

Raise(e) == [kind |-> "raise", value |-> "None", exc |-> e]

\* WebDriverWait(...).until(method, message): polls until the method gives a
\* value, an exception outside ignored_exceptions ends the wait, and running
\* out of polls raises TimeoutException(message)
RECURSIVE until(_, _, _, _)
until(polls, ignored_exceptions, message, loc) ==
    IF polls = <<>>
    THEN Raise(Exc("TimeoutException", message, FALSE, loc, ""))
    ELSE IF Head(polls) = "found"
    THEN Return("WebElement")
    ELSE IF Head(polls) = "false" \/ Head(polls) \in ignored_exceptions
    THEN until(Tail(polls), ignored_exceptions, message, loc)
    ELSE Raise(Exc(Head(polls), "Message", FALSE, <<>>, ""))

\* WebDriverWait's default ignored_exceptions
IGNORED_EXCEPTIONS == {"NoSuchElementException"}

\* __get_by on an argument of any type: the "in" test needs a string
get_by_arg(loc) ==
    IF loc.type = "str"
    THEN get_by(loc.s)
    ELSE RaiseBy(Exc("TypeError", "argument is not iterable", FALSE, <<>>, ""))

\* PageBase.find_element: every failure is raised again as Exception
find_element(loc, polls) ==
    LET b == get_by_arg(loc)
        r == until(polls, IGNORED_EXCEPTIONS,
                   "Timed out while waiting to find the element", loc.s)
        e == IF b.kind = "raise" THEN b.exc ELSE r.exc
    IN  IF b.kind = "return" /\ r.kind = "return"
        THEN r
        ELSE Raise(Exc("Exception", "Could Not Find Element",
                       e.notclickable, loc.s, e.text))

\* what the wait of an attempt met: "skipped" when no wait ran
WaitSeen(loc, polls) ==
    IF get_by_arg(loc).kind = "raise"
    THEN "skipped"
    ELSE LET r == until(polls, IGNORED_EXCEPTIONS, "", loc.s) IN
         IF r.kind = "return" THEN "found" ELSE r.exc.type

---------------------------------------------------------------------------
(* The bodies of the retry-wrapped methods: one attempt each *)

\* click re-raising every element error as it is
click_no_rename(loc, polls, e) ==
    LET element == IF loc.type = "str" THEN find_element(loc, polls)
                   ELSE IF loc.type = "WebElement" THEN Return("WebElement")
                   ELSE Return("None")
    IN  IF element.kind = "raise" THEN element
        ELSE IF element.value # "None"
        THEN IF e = NoExc THEN Return("None") ELSE Raise(e)
        ELSE Raise(Exc("Exception", "Could not click on the element with locator",
                       FALSE, loc.s, ""))

\* click raising NotClickableException for every element error
click_wrap_all(loc, polls, e) ==
    LET element == IF loc.type = "str" THEN find_element(loc, polls)
                   ELSE IF loc.type = "WebElement" THEN Return("WebElement")
                   ELSE Return("None")
    IN  IF element.kind = "raise" THEN element
        ELSE IF element.value # "None"
        THEN IF e = NoExc THEN Return("None")
             ELSE Raise(Exc("NotClickableException", "", FALSE, <<>>, ""))
        ELSE Raise(Exc("Exception", "Could not click on the element with locator",
                       FALSE, loc.s, ""))

\* PageBase.click
click(loc, polls, e) ==
    LET element == IF loc.type = "str" THEN find_element(loc, polls)
                   ELSE IF loc.type = "WebElement" THEN Return("WebElement")
                   ELSE Return("None")
    IN  IF element.kind = "raise" THEN element
        ELSE IF element.value # "None"
        THEN IF e = NoExc THEN Return("None")
             ELSE IF e.notclickable
             THEN Raise(Exc("NotClickableException", "", FALSE, <<>>, ""))
             ELSE Raise(e)
        ELSE Raise(Exc("Exception", "Could not click on the element with locator",
                       FALSE, loc.s, ""))

\* PageBase.set_field: the element operations run inside try/except Exception
set_field(loc, polls, e) ==
    LET webelement == find_element(loc, polls)
    IN  IF webelement.kind = "raise" THEN webelement
        ELSE IF e = NoExc THEN webelement
        ELSE Raise(Exc("Exception", "Could not write on the the element",
                       e.notclickable, <<>>, e.text))

\* PageBase.get_attribute
get_attribute(loc, polls, e) ==
    LET element == IF loc.type = "WebElement" THEN Return("WebElement")
                   ELSE find_element(loc, polls)
    IN  IF element.kind = "raise" THEN element
        ELSE IF e = NoExc THEN Return("attribute") ELSE Raise(e)

\* PageBase.find_child_element: nothing is wrapped
find_child_element(loc, polls) ==
    LET b == get_by_arg(loc)
    IN  IF b.kind = "raise" THEN Raise(b.exc)
        ELSE until(polls, IGNORED_EXCEPTIONS, "", <<>>)

---------------------------------------------------------------------------
(* The @retry decorator around them *)

\* delay=2 of every @retry decorator
Delay == 2

\* click's decorator naming NotClickableException alone
RetryOn_only_custom(o) ==
    IF o = "click"
    THEN {"NotClickableException"}
    ELSE {"StaleElementReferenceException"}

\* the exceptions each decorator names
RetryOn(o) ==
    IF o = "click"
    THEN {"StaleElementReferenceException", "ElementNotVisibleException",
          "NotClickableException"}
    ELSE {"StaleElementReferenceException"}

RetryOps == {"click", "set_field", "get_attribute", "find_child_element"}

\* whether the element operation of an attempt was reached
ElementReached(o, loc, polls) ==
    IF o = "find_child_element" THEN FALSE
    ELSE IF loc.type = "WebElement" THEN o # "set_field"
    ELSE IF loc.type = "str" THEN find_element(loc, polls).kind = "return"
    ELSE FALSE

\* whether the attempt ran find_element
FindElementCalled(o, loc) ==
    IF o = "set_field" THEN TRUE
    ELSE IF o = "find_child_element" THEN FALSE
    ELSE IF o = "click" THEN loc.type = "str"
    ELSE loc.type # "WebElement"

\* what the attempt met, as recorded in history
Event(o, loc, polls, e, at, r) ==
    [wait |-> IF FindElementCalled(o, loc) \/ o = "find_child_element"
              THEN WaitSeen(loc, polls) ELSE "skipped",
     elem |-> IF ElementReached(o, loc, polls) THEN e ELSE NoExc,
     at |-> IF ElementReached(o, loc, polls) /\ e # NoExc
            THEN (IF o = "set_field" THEN SetFieldOps[at]
                  ELSE IF o = "click" THEN "click" ELSE "get_attribute")
            ELSE "none",
     result |-> r]

\* the retry loop giving up one attempt early
Retried_one_short(r, ev) ==
    /\ history' = Append(history, ev)
    /\ IF r.kind = "return"
       THEN /\ pc' = "returned"
            /\ ret' = r
            /\ tries' = tries
       ELSE IF r.exc.type \in RetryOn(op)
       THEN /\ tries' = tries - 1
            /\ IF tries' = 1
               THEN pc' = "raised" /\ ret' = r
               ELSE pc' = "sleep" /\ ret' = ret
       ELSE /\ pc' = "raised"
            /\ ret' = r
            /\ tries' = tries
    /\ UNCHANGED <<op, locator, by, slept, waitVars, hookVars, factoryVars>>

\* one pass of the retry loop: f() has ended with r
Retried(r, ev) ==
    /\ history' = Append(history, ev)
    /\ IF r.kind = "return"
       THEN /\ pc' = "returned"
            /\ ret' = r
            /\ tries' = tries
       ELSE IF r.exc.type \in RetryOn(op)
       THEN /\ tries' = tries - 1
            /\ IF tries' = 0
               THEN pc' = "raised" /\ ret' = r
               ELSE pc' = "sleep" /\ ret' = ret
       ELSE /\ pc' = "raised"
            /\ ret' = r
            /\ tries' = tries
    /\ UNCHANGED <<op, locator, by, slept, waitVars, hookVars, factoryVars>>

Click ==
    /\ op = "click"
    /\ pc = "call"
    /\ \E polls \in PollSeqs, e \in ElementOutcomes :
          LET r == click(locator, polls, e) IN
          Retried(r, Event(op, locator, polls, e, 1, r))

SetField ==
    /\ op = "set_field"
    /\ pc = "call"
    /\ \E polls \in PollSeqs, e \in ElementOutcomes, at \in 1..Len(SetFieldOps) :
          LET r == set_field(locator, polls, e) IN
          Retried(r, Event(op, locator, polls, e, at, r))

GetAttribute ==
    /\ op = "get_attribute"
    /\ pc = "call"
    /\ \E polls \in PollSeqs, e \in ElementOutcomes :
          LET r == get_attribute(locator, polls, e) IN
          Retried(r, Event(op, locator, polls, e, 1, r))

FindChildElement ==
    /\ op = "find_child_element"
    /\ pc = "call"
    /\ \E polls \in PollSeqs :
          LET r == find_child_element(locator, polls) IN
          Retried(r, Event(op, locator, polls, NoExc, 1, r))

\* time.sleep(_delay) between two attempts; backoff is 1
RetrySleep ==
    /\ pc = "sleep"
    /\ slept' = slept + Delay
    /\ pc' = "call"
    /\ UNCHANGED <<op, locator, by, tries, history, ret, waitVars, hookVars, factoryVars>>

\* locator arguments of the actions: a bare id, a css locator, an unknown
\* strategy, an element handle, None
ActionLocators ==
    {StrLocator(<<"i">>), StrLocator(CSS \o Sep \o <<"d">>),
     StrLocator(<<"b", "o", "g", "u", "s">> \o Sep \o <<"d">>),
     [type |-> "WebElement", s |-> <<>>], [type |-> "NoneType", s |-> <<>>]}

Init ==
    /\ op \in RetryOps
    /\ locator \in ActionLocators
    /\ pc = "call"
    /\ by = NoBy
    /\ tries = Tries
    /\ slept = 0
    /\ history = <<>>
    /\ ret = NoRet
    /\ NoWait
    /\ NoHook
    /\ NoFactory

Next == Click \/ SetField \/ GetAttribute \/ FindChildElement \/ RetrySleep

Spec == Init /\ [][Next]_vars

---------------------------------------------------------------------------
(* The wait operations, poll by poll *)

\* waits for EC.presence_of_element_located
PresenceOps ==
    {"find_element", "wait_till_element_is_present", "is_element_present",
     "find_child_element"}

\* waits for another expected condition
ConditionOps ==
    {"explicit_wait", "wait_till_element_is_visible",
     "wait_till_element_is_invisible", "wait_till_text_is_present_in_element",
     "wait_till_text_is_present_in_element_value"}

WaitOps == PresenceOps \cup ConditionOps

\* what one poll of a condition other than presence does: a value that is
\* true ("found") or false, or an error of the driver or the element
ConditionPollOutcomes ==
    PollOutcomes \cup
    {"false", "ElementNotVisibleException", "ElementNotInteractableException"}

PollOutcomesOf(o) ==
    IF o \in PresenceOps THEN PollOutcomes ELSE ConditionPollOutcomes

\* ignored_exceptions of the WebDriverWait each operation builds
IgnoredBy(o) ==
    IF o \in PresenceOps THEN IGNORED_EXCEPTIONS
    ELSE IF o = "wait_till_element_is_visible"
    THEN IGNORED_EXCEPTIONS \cup
         {"ElementNotVisibleException", "ElementNotSelectableException",
          "StaleElementReferenceException"}
    ELSE IGNORED_EXCEPTIONS \cup
         {"ElementNotVisibleException", "ElementNotSelectableException"}

\* a wait whose value is not returned
WaitValue_none(o) == "None"

\* the value a satisfied wait hands to the caller
WaitValue(o) ==
    IF o = "is_element_present" THEN "True"
    ELSE IF o \in {"wait_till_element_is_invisible",
                   "wait_till_text_is_present_in_element",
                   "wait_till_text_is_present_in_element_value"}
    THEN "True"
    ELSE "WebElement"

\* TimeoutException(message): only find_element passes a message
TimeoutOf(o, loc) ==
    IF o = "find_element"
    THEN Exc("TimeoutException", "Timed out while waiting to find the element",
             FALSE, loc.s, "")
    ELSE Exc("TimeoutException", "", FALSE, <<>>, "")

\* the except clauses around the wait: what the caller gets when __get_by or
\* until raised e
\* is_element_present with a bare except returning False
WaitRaised_all_false(o, loc, e) ==
    IF o = "find_element"
    THEN Raise(Exc("Exception", "Could Not Find Element",
                   e.notclickable, loc.s, e.text))
    ELSE IF o = "is_element_present"
    THEN Return("False")
    ELSE Raise(e)

\* the except clauses as written
WaitRaised(o, loc, e) ==
    IF o = "find_element"
    THEN Raise(Exc("Exception", "Could Not Find Element",
                   e.notclickable, loc.s, e.text))
    ELSE IF o = "is_element_present"
    THEN IF e.type = "TimeoutException"
         THEN Return("False")
         ELSE Raise(Exc("Exception", "Could Not Verify Element Presence",
                        e.notclickable, loc.s, e.text))
    ELSE Raise(e)

\* a retry loop that allows one attempt more
Ended_one_more(r) ==
    IF r.kind = "raise" /\ op \in RetryOps /\ r.exc.type \in RetryOn(op)
    THEN /\ tries' = tries - 1
         /\ IF tries' < 0
            THEN pc' = "raised" /\ ret' = r
            ELSE pc' = "sleep" /\ ret' = ret
    ELSE /\ pc' = IF r.kind = "return" THEN "returned" ELSE "raised"
         /\ ret' = r
         /\ tries' = tries

\* the call ends with r, or its @retry decorator takes another turn
Ended(r) ==
    IF r.kind = "raise" /\ op \in RetryOps /\ r.exc.type \in RetryOn(op)
    THEN /\ tries' = tries - 1
         /\ IF tries' = 0
            THEN pc' = "raised" /\ ret' = r
            ELSE pc' = "sleep" /\ ret' = ret
    ELSE /\ pc' = IF r.kind = "return" THEN "returned" ELSE "raised"
         /\ ret' = r
         /\ tries' = tries

\* the actions that wait through find_element before they touch the element
FindingOps == {"click", "set_field", "get_attribute"}

\* the operations that are followed poll by poll
StepOps == WaitOps \cup FindingOps

\* the body of a finding action, given what its wait met
ActionBody(o, loc, polls, e) ==
    IF o = "click" THEN click(loc, polls, e)
    ELSE IF o = "set_field" THEN set_field(loc, polls, e)
    ELSE get_attribute(loc, polls, e)

\* the operation that owns the wait and its except clauses
WaitOwner(o) == IF o \in FindingOps THEN "find_element" ELSE o

\* the wait has ended and left e (NoExc: satisfied): the rest of the method
AfterWait(e) ==
    IF op \in FindingOps
    THEN \E x \in ElementOutcomes : Ended(ActionBody(op, locator, polled', x))
    ELSE IF e = NoExc
    THEN Ended(Return(WaitValue(op)))
    ELSE Ended(WaitRaised(op, locator, e))

\* the operation is entered: __get_by, then WebDriverWait(...).until starts
StartWait ==
    /\ op \in StepOps
    /\ pc = "call"
    /\ LET b == get_by_arg(locator) IN
       IF op \in FindingOps /\ ~FindElementCalled(op, locator)
       THEN /\ \E x \in ElementOutcomes :
                  Ended(ActionBody(op, locator, <<>>, x))
            /\ UNCHANGED waitVars
       ELSE IF b.kind = "raise"
       THEN /\ Ended(WaitRaised(WaitOwner(op), locator, b.exc))
            /\ UNCHANGED waitVars
       ELSE /\ wait' = "POLLING"
            /\ polled' = <<>>
            /\ waits' = waits + 1
            /\ pc' = "polling"
            /\ UNCHANGED <<tries, ret>>
    /\ UNCHANGED <<op, locator, by, slept, history, hookVars, factoryVars>>

\* one turn of the loop of until: the poll, then the check of the time
Poll ==
    /\ op \in StepOps
    /\ pc = "polling"
    /\ wait = "POLLING"
    /\ \E o \in PollOutcomesOf(WaitOwner(op)), expired \in BOOLEAN :
          /\ (Len(polled) + 1 >= MaxPolls) => expired
          /\ polled' = Append(polled, o)
          /\ IF o = "found"
             THEN /\ wait' = "SATISFIED"
                  /\ AfterWait(NoExc)
             ELSE IF o # "false" /\ o \notin IgnoredBy(WaitOwner(op))
             THEN /\ wait' = "FAILED"
                  /\ AfterWait(Exc(o, "Message", FALSE, <<>>, ""))
             ELSE IF expired
             THEN /\ wait' = "TIMED_OUT"
                  /\ AfterWait(TimeoutOf(WaitOwner(op), locator))
             ELSE /\ wait' = "POLLING"
                  /\ UNCHANGED <<pc, ret, tries>>
    /\ UNCHANGED <<op, locator, by, slept, history, waits, hookVars, factoryVars>>

InitWait ==
    /\ op \in StepOps
    /\ locator \in ActionLocators
    /\ pc = "call"
    /\ by = NoBy
    /\ tries = Tries
    /\ slept = 0
    /\ history = <<>>
    /\ ret = NoRet
    /\ NoWait
    /\ NoHook
    /\ NoFactory

NextWait == StartWait \/ Poll \/ RetrySleep

SpecWait == InitWait /\ [][NextWait]_vars

---------------------------------------------------------------------------
(* The other operations of PageBase, one call each *)

\* WebDriverWait(...).until_not(method): returns the first value that is
\* false, returns True when a poll raises an ignored exception, and raises
\* TimeoutException when it runs out of polls
RECURSIVE until_not(_, _)
until_not(polls, ignored_exceptions) ==
    IF polls = <<>>
    THEN Raise(Exc("TimeoutException", "", FALSE, <<>>, ""))
    ELSE IF Head(polls) = "false"
    THEN Return("False")
    ELSE IF Head(polls) = "found"
    THEN until_not(Tail(polls), ignored_exceptions)
    ELSE IF Head(polls) \in ignored_exceptions
    THEN Return("True")
    ELSE Raise(Exc(Head(polls), "Message", FALSE, <<>>, ""))

\* find_element(locator), then an operation on the element with no handler
\* or with "except Exception as e: raise e"
FindThenOps ==
    {"is_element_selected", "is_element_enabled", "click_and_move_by_offset",
     "select_value_from_dropdown", "select_value_from_dropdown_by_index",
     "select_value_from_value", "select_dropdown_option", "hit_enter",
     "send_keys", "scroll_down", "hover", "get_css_value",
     "get_element_screen_shot", "upload_file"}

\* isinstance(locator, WebElement) decides whether find_element is called
ElementOrLocatorOps == {"javascript_click", "drag_and_drop"}

\* __get_by(locator), then one call of the driver or the element
ResolveThenOps == {"find_elements", "find_visible_elements", "find_child_elements"}

\* operations on the driver or on an element handle, without a locator
DriverOps ==
    {"open", "set_implicit_timeout", "get_current_title", "get_current_url",
     "get_element_text", "switch_to_frame", "switch_to_main_window",
     "read_browser_console_log", "execute_javascript", "accept_alert",
     "dismiss_alert", "teardown_browser", "close_browser",
     "disconnect_browser", "connect_browser", "get_network_conditions",
     "maximize_browser", "bring_to_front", "back",
     "get_current_window_handle", "get_window_handles",
     "switch_to_new_window", "refresh_browser", "get_full_page_screen_shot",
     "get_page_cookies", "get_page_useragent", "set_browser_window_size"}

\* waits on the driver without a locator
PlainWaitOps ==
    {"explicit_wait_till_alert_is_present",
     "wait_till_webdriver_element_to_be_visible"}

\* the waits that are one call of until around __get_by
UntilOps == WaitOps \ {"find_child_element"}

SimpleOps ==
    FindThenOps \cup ElementOrLocatorOps \cup ResolveThenOps \cup DriverOps
    \cup PlainWaitOps \cup UntilOps
    \cup {"get_text", "move_and_click", "is_element_displayed",
          "wait_till_element_is_not_visible"}

\* the operations that call __get_by on their locator, themselves or
\* through find_element
ResolvesLocator(o, loc) ==
    IF o \in DriverOps \cup PlainWaitOps THEN FALSE
    ELSE IF o \in ElementOrLocatorOps THEN loc.type # "WebElement"
    ELSE TRUE

\* the operations that wait, once the locator is resolved
WaitsFor(o, loc) ==
    IF o \in ResolveThenOps \cup DriverOps THEN FALSE
    ELSE IF o \in PlainWaitOps THEN TRUE
    ELSE ResolvesLocator(o, loc) /\ get_by_arg(loc).kind = "return"

\* the wait of the operation, as until or until_not leave it
WaitOf(o, loc, polls) ==
    IF o = "wait_till_element_is_not_visible"
    THEN until_not(polls, IgnoredBy(o))
    ELSE IF o \in UntilOps
    THEN until(polls, IgnoredBy(o), TimeoutOf(o, loc).text, TimeoutOf(o, loc).locator)
    ELSE IF o = "wait_till_webdriver_element_to_be_visible"
    THEN until(polls, IgnoredBy(o), "", <<>>)
    ELSE IF o = "explicit_wait_till_alert_is_present"
    THEN until(polls, IGNORED_EXCEPTIONS, "", <<>>)
    ELSE until(polls, IGNORED_EXCEPTIONS,
               "Timed out while waiting to find the element", loc.s)

\* the polls the wait of the operation can meet
PollSeqsFor(o) ==
    IF o \in ConditionOps \cup PlainWaitOps \cup {"wait_till_element_is_not_visible"}
    THEN [1..MaxPolls -> ConditionPollOutcomes]
    ELSE PollSeqs

\* find_element(locator), then an element operation whose error is not handled
FindThen(loc, polls, e, v) ==
    LET element == find_element(loc, polls)
    IN  IF element.kind = "raise" THEN element
        ELSE IF e = NoExc THEN Return(v) ELSE Raise(e)

\* a get_text that answers with an empty text when the element is not found
get_text_swallow(loc, polls, e) ==
    LET element == find_element(loc, polls)
    IN  IF element.kind = "raise" THEN Return("")
        ELSE IF e = NoExc THEN Return("text") ELSE Raise(e)

\* PageBase.get_text: only find_element is inside the try
get_text(loc, polls, e) ==
    LET element == find_element(loc, polls)
    IN  IF element.kind = "raise"
        THEN Raise(Exc("Exception", "Could not get the text of the the element",
                       element.exc.notclickable, loc.s, element.exc.text))
        ELSE IF e = NoExc THEN Return("text") ELSE Raise(e)

\* PageBase.move_and_click: the message names the element, not the locator
move_and_click(loc, polls, e) ==
    LET element == find_element(loc, polls)
    IN  IF element.kind = "raise" THEN element
        ELSE IF e = NoExc THEN element
        ELSE Raise(Exc("Exception", "Could Not click locator",
                       e.notclickable, <<>>, e.text))

\* PageBase.find_elements
find_elements(loc, e) ==
    LET b == get_by_arg(loc)
        x == IF b.kind = "raise" THEN b.exc ELSE e
    IN  IF b.kind = "return" /\ e = NoExc
        THEN Return("list")
        ELSE Raise(Exc("Exception", "Could Not Find Elements",
                       x.notclickable, loc.s, x.text))

\* PageBase.find_visible_elements, PageBase.find_child_elements
find_unwrapped(loc, e) ==
    LET b == get_by_arg(loc)
    IN  IF b.kind = "raise" THEN Raise(b.exc)
        ELSE IF e = NoExc THEN Return("list") ELSE Raise(e)

\* PageBase.is_element_displayed: the bare except covers find_element only
is_element_displayed(loc, polls, e) ==
    LET element == find_element(loc, polls)
    IN  IF element.kind = "raise" THEN Return("False")
        ELSE IF e = NoExc THEN Return("True") ELSE Raise(e)

\* PageBase.javascript_click, PageBase.drag_and_drop (its other argument an
\* element handle)
element_or_locator(o, loc, polls, e) ==
    IF loc.type = "WebElement"
    THEN IF e = NoExc THEN Return("None") ELSE Raise(e)
    ELSE IF loc.type = "str" \/ o = "drag_and_drop"
    THEN FindThen(loc, polls, e, "None")
    ELSE Raise(Exc("TypeError", "can only concatenate str", FALSE, <<>>, ""))

\* a wait operation as one call: __get_by, until, the except clauses
wait_op(o, loc, polls) ==
    LET b == get_by_arg(loc)
        r == WaitOf(o, loc, polls)
    IN  IF o \notin PlainWaitOps /\ b.kind = "raise"
        THEN WaitRaised(o, loc, b.exc)
        ELSE IF r.kind = "return"
        THEN Return(IF o = "wait_till_element_is_not_visible"
                    THEN r.value ELSE WaitValue(o))
        ELSE WaitRaised(o, loc, r.exc)

\* the body of each operation
OpBody(o, loc, polls, e) ==
    IF o \in FindThenOps THEN FindThen(loc, polls, e, "value")
    ELSE IF o \in ElementOrLocatorOps THEN element_or_locator(o, loc, polls, e)
    ELSE IF o = "find_elements" THEN find_elements(loc, e)
    ELSE IF o \in ResolveThenOps THEN find_unwrapped(loc, e)
    ELSE IF o \in DriverOps THEN (IF e = NoExc THEN Return("value") ELSE Raise(e))
    ELSE IF o = "get_text" THEN get_text(loc, polls, e)
    ELSE IF o = "move_and_click" THEN move_and_click(loc, polls, e)
    ELSE IF o = "is_element_displayed" THEN is_element_displayed(loc, polls, e)
    ELSE wait_op(o, loc, polls)

\* whether the operation got as far as its call of the driver or the element
OpReached(o, loc, polls) ==
    IF o \in DriverOps THEN TRUE
    ELSE IF o \in ResolveThenOps THEN get_by_arg(loc).kind = "return"
    ELSE IF o \in UntilOps \cup PlainWaitOps \cup {"wait_till_element_is_not_visible"}
    THEN FALSE
    ELSE IF o \in ElementOrLocatorOps /\ loc.type = "WebElement" THEN TRUE
    ELSE IF o = "javascript_click" /\ loc.type # "str" THEN FALSE
    ELSE find_element(loc, polls).kind = "return"

\* what ended the wait: "found", a value of until_not, or the class of the
\* error (for until_not also of the ignored error it turned into True)
WaitEnd(o, loc, polls) ==
    IF ~WaitsFor(o, loc) THEN "skipped"
    ELSE LET r == WaitOf(o, loc, polls) IN
         IF r.kind = "raise" THEN r.exc.type
         ELSE IF o # "wait_till_element_is_not_visible" THEN "found"
         ELSE IF r.value = "False" THEN "false"
         ELSE CHOOSE x \in ConditionPollOutcomes :
                \E k \in 1..Len(polls) :
                    /\ polls[k] = x
                    /\ x \in IgnoredBy(o)
                    /\ \A j \in 1..(k - 1) : polls[j] = "found"

OpEvent(o, loc, polls, e, r) ==
    [wait |-> WaitEnd(o, loc, polls),
     elem |-> IF OpReached(o, loc, polls) THEN e ELSE NoExc,
     at |-> IF OpReached(o, loc, polls) /\ e # NoExc THEN o ELSE "none",
     result |-> r]

\* one call of an operation that has no retry decorator
Operate ==
    /\ op \in SimpleOps
    /\ pc = "call"
    /\ \E polls \in PollSeqsFor(op), e \in ElementOutcomes :
          \E r \in {OpBody(op, locator, polls, e)} :
          /\ history' = <<OpEvent(op, locator, polls, e, r)>>
          /\ ret' = r
          /\ pc' = IF r.kind = "return" THEN "returned" ELSE "raised"
    /\ UNCHANGED <<op, locator, by, tries, slept, waitVars, hookVars, factoryVars>>

\* PageBase.is_child_element_present: one attempt of find_child_element
\* under its retry decorator; the bare except turns what is left into False
IsChildElementPresent ==
    /\ op = "is_child_element_present"
    /\ pc = "call"
    /\ \E polls \in PollSeqs :
          LET r == find_child_element(locator, polls) IN
          /\ history' = Append(history,
                               Event("find_child_element", locator, polls, NoExc, 1, r))
          /\ IF r.kind = "return"
             THEN pc' = "returned" /\ ret' = Return("True") /\ tries' = tries
             ELSE IF r.exc.type \in RetryOn("find_child_element")
             THEN /\ tries' = tries - 1
                  /\ IF tries' = 0
                     THEN pc' = "returned" /\ ret' = Return("False")
                     ELSE pc' = "sleep" /\ ret' = ret
             ELSE pc' = "returned" /\ ret' = Return("False") /\ tries' = tries
    /\ UNCHANGED <<op, locator, by, slept, waitVars, hookVars, factoryVars>>

InitOps ==
    /\ op \in SimpleOps \cup RetryOps \cup {"is_child_element_present"}
    /\ locator \in ActionLocators
    /\ pc = "call"
    /\ by = NoBy
    /\ tries = Tries
    /\ slept = 0
    /\ history = <<>>
    /\ ret = NoRet
    /\ NoWait
    /\ NoHook
    /\ NoFactory

NextOps ==
    \/ Operate
    \/ IsChildElementPresent
    \/ Click
    \/ SetField
    \/ GetAttribute
    \/ FindChildElement
    \/ RetrySleep

SpecOps == InitOps /\ [][NextOps]_vars

---------------------------------------------------------------------------
(* conftest.py: the collection hook *)

\* names of test functions
TestNames == {<<"a">>, <<"b">>, <<"a", "b">>}

\* the characters of a --customseq value: letters of test names, the comma,
\* and a letter that no test name has
OptionAlphabet == {"a", "b", ",", "n"}

OptionStrings ==
    UNION {[1..n -> OptionAlphabet] : n \in 0..MaxSeqLen}

\* the collected lists: item k is the k-th collected test function
Collections ==
    UNION {{[k \in 1..n |-> [nodeid |-> k, name |-> f[k]]] :
                f \in [1..n -> TestNames]} : n \in 0..MaxItems}

\* str(item) of a pytest Function item
str(item) ==
    <<"<", "F", "u", "n", "c", "t", "i", "o", "n", " ">> \o item.name \o <<">">>

\* s in str(item)
Matches(s, item) == Contains(str(item), s)

\* the inner loop: the items that match s, in their order
RECURSIVE MatchingItems(_, _)
MatchingItems(s, its) ==
    IF its = <<>> THEN <<>>
    ELSE (IF Matches(s, Head(its)) THEN <<Head(its)>> ELSE <<>>)
         \o MatchingItems(s, Tail(its))

\* the outer loop: selected_items after every token of seq
RECURSIVE selected_items(_, _)
selected_items(tokens, its) ==
    IF tokens = <<>> THEN <<>>
    ELSE MatchingItems(Head(tokens), its) \o selected_items(Tail(tokens), its)

\* cmdopt.split(",")
Tokens(cmdopt) == Split(cmdopt, <<",">>)

pytest_collection_modifyitems ==
    /\ op = "pytest_collection_modifyitems"
    /\ pc = "call"
    /\ items' = IF seq THEN selected_items(Tokens(customseq), items) ELSE items
    /\ pc' = "returned"
    /\ UNCHANGED <<op, locator, by, tries, slept, history, ret, waitVars,
                   seq, customseq, collected, factoryVars>>

InitHook ==
    /\ op = "pytest_collection_modifyitems"
    /\ locator = StrLocator(<<>>)
    /\ pc = "call"
    /\ by = NoBy
    /\ tries = Tries
    /\ slept = 0
    /\ history = <<>>
    /\ ret = NoRet
    /\ NoWait
    /\ seq \in BOOLEAN
    /\ customseq \in OptionStrings
    /\ collected \in Collections
    /\ items = collected
    /\ NoFactory

NextHook == pytest_collection_modifyitems

SpecHook == InitHook /\ [][NextHook]_vars

---------------------------------------------------------------------------
(* driverfactory.py: DriverFactory *)

UpperCase == <<"A", "B", "C", "D", "E", "F", "G", "H", "I", "J", "K", "L", "M", "N", "O", "P", "Q", "R", "S", "T", "U", "V", "W", "X", "Y", "Z">>
LowerCase == <<"a", "b", "c", "d", "e", "f", "g", "h", "i", "j", "k", "l", "m", "n", "o", "p", "q", "r", "s", "t", "u", "v", "w", "x", "y", "z">>

\* str.lower(), character by character
lower(s) ==
    [k \in 1..Len(s) |->
        IF \E n \in 1..Len(UpperCase) : UpperCase[n] = s[k]
        THEN LowerCase[CHOOSE n \in 1..Len(UpperCase) : UpperCase[n] = s[k]]
        ELSE s[k]]

\* the values of BrowserType
CHROME == <<"c", "h", "r", "o", "m", "e">>
IE == <<"i", "e">>
FIREFOX == <<"f", "i", "r", "e", "f", "o", "x">>
CHROME_REMOTE == <<"c", "h", "r", "o", "m", "e", "_", "r", "e", "m", "o", "t", "e">>
OPERA == <<"o", "p", "e", "r", "a">>
SAFARI == <<"s", "a", "f", "a", "r", "i">>

BrowserType == {CHROME, IE, FIREFOX, CHROME_REMOTE, OPERA, SAFARI}

\* browser='ff', the default of the constructor
DefaultBrowser == <<"f", "f">>

\* the browser names a caller passes: the defined ones, some of them in
\* other letter case, a name that is not defined, and the empty name
Browsers ==
    BrowserType \cup
    {DefaultBrowser, <<"F", "F">>, <<"C", "h", "r", "o", "m", "e">>, <<"I", "E">>, <<"F", "i", "r", "e", "f", "o", "x">>,
     <<"C", "h", "r", "o", "m", "e", "_", "R", "e", "m", "o", "t", "e">>, <<"e", "d", "g", "e">>, <<>>}

\* values of remote_flag, by their truth value
RemoteFlags == {"True", "False", "None"}

RemoteUrls == {"None", "http://hub:4444/wd/hub"}

DesiredCaps == {"None", "caps"}

\* the branches of _run_local: the webdriver class constructed, or None
local_driver_class(b) ==
    IF lower(b) = DefaultBrowser \/ lower(b) = FIREFOX THEN "Firefox"
    ELSE IF lower(b) = IE THEN "Ie"
    ELSE IF lower(b) = CHROME THEN "Chrome"
    ELSE IF lower(b) = OPERA THEN "Opera"
    ELSE IF lower(b) = SAFARI THEN "Safari"
    ELSE "None"

\* DriverFactory._run_local(self._browser), reached with a false remote_flag
run_local ==
    /\ op = "get_web_driver"
    /\ pc = "call"
    /\ remote_flag # "True"
    /\ \E local_driver \in {local_driver_class(browser)} :
          IF local_driver = "None"
          THEN /\ started' = started
               /\ driver' = driver
               /\ ret' = Raise(Exc("AttributeError",
                                   "'NoneType' object has no attribute 'maximize_window'",
                                   FALSE, <<>>, ""))
               /\ pc' = "raised"
          ELSE /\ started' = started \o <<local_driver, "maximize_window">>
               /\ driver' = local_driver
               /\ ret' = Return(local_driver)
               /\ pc' = "returned"
    /\ UNCHANGED <<op, locator, by, tries, slept, history, waitVars, hookVars,
                   browser, remote_flag, remote_url, desired_caps>>

\* DriverFactory._run_remote(remote_url, desired_caps), reached with a true
\* remote_flag
run_remote ==
    /\ op = "get_web_driver"
    /\ pc = "call"
    /\ remote_flag = "True"
    /\ started' = Append(started, "Remote")
    /\ driver' = "Remote"
    /\ ret' = Return("Remote")
    /\ pc' = "returned"
    /\ UNCHANGED <<op, locator, by, tries, slept, history, waitVars, hookVars,
                   browser, remote_flag, remote_url, desired_caps>>

\* DriverFactory.get_web_driver
get_web_driver == run_remote \/ run_local

InitFactory ==
    /\ op = "get_web_driver"
    /\ locator = StrLocator(<<>>)
    /\ pc = "call"
    /\ by = NoBy
    /\ tries = Tries
    /\ slept = 0
    /\ history = <<>>
    /\ ret = NoRet
    /\ NoWait
    /\ NoHook
    /\ browser \in Browsers
    /\ remote_flag \in RemoteFlags
    /\ remote_url \in RemoteUrls
    /\ desired_caps \in DesiredCaps
    /\ started = <<>>
    /\ driver = "None"

NextFactory == get_web_driver

SpecFactory == InitFactory /\ [][NextFactory]_vars

---------------------------------------------------------------------------
(* Claims about the locator resolver, checked under SpecGetBy *)

\* the By constant each strategy name stands for
StrategyBy(st) ==
    IF st = XPATH THEN "xpath"
    ELSE IF st = ID THEN "id"
    ELSE IF st = CSS THEN "css selector"
    ELSE "tag name"

StartsWith(s, t) == StartsAt(s, 1, t)

\* the text of s after a head of length n
After(s, n) == SubSeq(s, n + 1, Len(s))

GetByDone == op = "__get_by" /\ pc # "call"

\* C1: a locator string "<strategy>@@<value>" with a known strategy name and
\* no further "@@" in <value> resolves to that strategy and to <value>,
\* unchanged.
C1_OneSeparator ==
    GetByDone =>
        \A st \in StrategyValues :
            LET v == After(locator.s, Len(st) + Len(Sep)) IN
            (StartsWith(locator.s, st \o Sep) /\ ~Contains(v, Sep))
                => by = ReturnBy(StrategyBy(st), v)

C1_Witness ==
    /\ GetByDone
    /\ locator.s = TAGNAME \o Sep \o <<"d", "@", "i">>
    /\ by.kind = "return"

\* C2: a locator string without "@@" resolves to the strategy id and to the
\* whole string as value.
C2_NoSeparator ==
    GetByDone =>
        (~Contains(locator.s, Sep) => by = ReturnBy("id", locator.s))

C2_Witness ==
    /\ GetByDone
    /\ locator.s = <<"@", "i", "@", "d", "@">>
    /\ by.kind = "return"

\* C3: a locator string with "@@" whose text before the first "@@" is not
\* exactly one of the four strategy names is rejected with the resolver's
\* incorrect-locator error, and no (strategy, value) pair is returned.
C3_UnknownStrategy ==
    GetByDone =>
        ((/\ Contains(locator.s, Sep)
          /\ \A st \in StrategyValues : ~StartsWith(locator.s, st \o Sep))
            => /\ by.kind = "raise"
               /\ by.by = "None"
               /\ by.exc.type = "Exception"
               /\ by.exc.text = "Incorrect locator specified"
               /\ by.exc.locator = locator.s)

C3_Witness ==
    /\ GetByDone
    /\ locator.s = <<"X", "P", "A", "T", "H">> \o Sep \o <<"i">>
    /\ by.kind = "raise"

\* C4: for a locator string with a known strategy name and two or more "@@",
\* the resolved value is the entire text after the first "@@".
C4_ValueIsAllAfterFirstSeparator ==
    GetByDone =>
        \A st \in StrategyValues :
            LET v == After(locator.s, Len(st) + Len(Sep)) IN
            (StartsWith(locator.s, st \o Sep) /\ Contains(v, Sep))
                => by = ReturnBy(StrategyBy(st), v)

\* C5: the resolver never returns a pair whose value is empty: it returns a
\* non-empty value or rejects the input.
C5_ValueNonEmpty ==
    GetByDone => (by.kind = "raise" \/ (by.kind = "return" /\ by.value # <<>>))

---------------------------------------------------------------------------
(* Claims about the retry-wrapped actions, checked under Spec *)

Attempts == Len(history)

Running == pc \in {"call", "sleep"}

\* element.click() of attempt k raised an error whose message contains
\* "is not clickable"
NotClickableAt(k) == history[k].at = "click" /\ history[k].elem.notclickable

\* C6: while the first attempts of a click (up to 2) all meet the
\* not-clickable condition the call goes on, and when the 3rd attempt then
\* succeeds the call returns after exactly 3 attempts.
C6_ClickSucceedsOnThirdAttempt ==
    op = "click" =>
        /\ \A k \in 1..2 :
              (Attempts = k /\ \A j \in 1..k : NotClickableAt(j)) => Running
        /\ (/\ Attempts >= 3
            /\ NotClickableAt(1)
            /\ NotClickableAt(2)
            /\ history[3].result.kind = "return")
              => /\ pc = "returned"
                 /\ ret = Return("None")
                 /\ Attempts = 3
                 /\ tries = Tries - 2

C6_Witness ==
    /\ op = "click"
    /\ Attempts = 3
    /\ NotClickableAt(1)
    /\ NotClickableAt(2)
    /\ history[3].result.kind = "return"
    /\ pc = "returned"

\* the first attempt of a click met a non-transient error: find_element
\* failed (no element before the timeout, an error of the driver, an invalid
\* locator), the locator is neither a string nor an element, or
\* element.click() raised an error outside the whitelist without
\* "is not clickable" in its message
NonTransientClick(ev) ==
    \/ locator.type = "str" /\ get_by(locator.s).kind = "raise"
    \/ locator.type \notin {"str", "WebElement"}
    \/ ev.wait \in {"TimeoutException", "StaleElementReferenceException"}
    \/ /\ ev.at = "click"
       /\ ~ev.elem.notclickable
       /\ ev.elem.type \notin
            {"StaleElementReferenceException", "ElementNotVisibleException",
             "NotClickableException"}

\* C7: a click whose first attempt fails with a non-transient error makes
\* exactly one attempt, never sleeps, and that error reaches the caller.
C7_ClickNonTransientFailsAtOnce ==
    (op = "click" /\ Attempts >= 1 /\ NonTransientClick(history[1]))
        => /\ Attempts = 1
           /\ pc = "raised"
           /\ ret.kind = "raise"
           /\ ret = history[1].result
           /\ slept = 0

C7_Witness ==
    /\ op = "click"
    /\ Attempts = 1
    /\ history[1].at = "click"
    /\ history[1].elem.type = "ElementClickInterceptedException"
    /\ ~history[1].elem.notclickable
    /\ pc = "raised"

\* C8 as stated: every failure of a click attempt other than the custom
\* not-clickable condition ends the call at that attempt.
C8_OnlyNotClickableRetried ==
    op = "click" =>
        \A k \in 1..Attempts :
            (/\ history[k].result.kind = "raise"
             /\ history[k].result.exc.type # "NotClickableException")
                => (k = Attempts /\ pc = "raised")

\* C8 amended: a click attempt that fails is followed by another attempt
\* exactly when its error is the custom not-clickable condition, a stale
\* element or a not-visible element and the budget is not used up; any
\* other failure ends the call at that attempt and reaches the caller.
C8_ClickRetriesWhitelistOnly ==
    op = "click" =>
        \A k \in 1..Attempts :
            history[k].result.kind = "raise" =>
                IF history[k].result.exc.type \in
                      {"NotClickableException", "StaleElementReferenceException",
                       "ElementNotVisibleException"}
                THEN (k = Attempts /\ k < Tries) => Running
                ELSE k = Attempts /\ pc = "raised" /\ ret = history[k].result

C8_Witness ==
    /\ op = "click"
    /\ Attempts = 2
    /\ history[1].result.exc.type = "StaleElementReferenceException"
    /\ history[2].result.exc.type = "Exception"
    /\ pc = "raised"

\* the error an attempt ended with is one its decorator retries on
TransientAt(k) ==
    /\ history[k].result.kind = "raise"
    /\ history[k].result.exc.type \in RetryOn(op)

StaleAt(k) ==
    \/ history[k].wait = "StaleElementReferenceException"
    \/ /\ history[k].at \in {"send_keys", "clear", "click"}
       /\ history[k].elem.type = "StaleElementReferenceException"

\* C10: an attempt of set_field, before the 5th, that meets a stale-element
\* error is followed by another attempt instead of ending the call.
C10_SetFieldRetriedOnStale ==
    (op = "set_field" /\ Attempts >= 1 /\ Attempts < Tries /\ StaleAt(Attempts))
        => Running

---------------------------------------------------------------------------
(* Claims about the wait operations, checked under SpecWait *)

Done == pc \in {"returned", "raised"}

\* C11: in every wait operation, a poll at which the condition holds is the
\* last poll of the wait, and the operation returns the value of that poll
\* (an element or true).
C11_SatisfiedWaitReturns ==
    op \in WaitOps =>
        \A k \in 1..Len(polled) :
            polled[k] = "found"
                => /\ k = Len(polled)
                   /\ wait = "SATISFIED"
                   /\ pc = "returned"
                   /\ ret.kind = "return"
                   /\ ret.value \in {"WebElement", "True"}

C11_Witness ==
    /\ op = "explicit_wait"
    /\ polled = <<"false", "found">>
    /\ pc = "returned"
    /\ ret = Return("WebElement")

\* the wait operations C12 names
NamedWaitOps == WaitOps \ {"is_element_present", "find_child_element"}

\* C12: a wait whose condition never held before the timeout ends in a
\* timeout failure that carries the locator the caller passed and says what
\* was waited for; it returns nothing.
C12_TimeoutCarriesLocator ==
    (op \in NamedWaitOps /\ wait = "TIMED_OUT")
        => /\ pc = "raised"
           /\ ret.kind = "raise"
           /\ ret.exc.type \in {"TimeoutException", "Exception"}
           /\ ret.exc.locator = locator.s
           /\ ret.exc.text # ""

\* the errors the spec calls transient
TransientPollErrors ==
    {"StaleElementReferenceException", "ElementNotVisibleException",
     "ElementNotInteractableException"}

\* C13: a poll that raises a transient error does not end the wait with
\* that error: the wait goes on polling, or times out.
C13_TransientPollAbsorbed ==
    op \in WaitOps =>
        \A k \in 1..Len(polled) :
            polled[k] \in TransientPollErrors => wait # "FAILED"

TerminalWait == {"SATISFIED", "TIMED_OUT", "FAILED"}

\* C14 as stated: a wait that has ended never polls again within the call.
C14_EndedWaitNeverRestarted ==
    [][(wait \in TerminalWait) => (wait' = wait)]_vars

\* C14 amended: a wait call goes from POLLING to exactly one of SATISFIED
\* (its last poll held), TIMED_OUT (no poll held or failed) and FAILED (its
\* last poll raised an error that is not ignored), and stays there until the
\* call ends; only the retry decorator of the action, after its sleep,
\* starts another wait call, one per attempt and at most 5 per call.
C14_WaitStates ==
    /\ [](/\ waits <= Tries
          /\ (wait = "NONE") = (waits = 0)
          /\ wait = "SATISFIED" => polled[Len(polled)] = "found"
          /\ wait = "TIMED_OUT" =>
                \A k \in 1..Len(polled) :
                    polled[k] = "false" \/ polled[k] \in IgnoredBy(WaitOwner(op))
          /\ wait = "FAILED" =>
                /\ polled[Len(polled)] \notin {"found", "false"}
                /\ polled[Len(polled)] \notin IgnoredBy(WaitOwner(op))
          /\ wait \in TerminalWait => pc # "polling"
          /\ (waits > 1 \/ pc = "sleep") => op \in RetryOps)
    /\ [][/\ wait \in TerminalWait =>
                (\/ wait' = wait /\ polled' = polled /\ waits' = waits
                 \/ /\ wait' = "POLLING"
                    /\ pc = "call"
                    /\ tries < Tries
                    /\ waits' = waits + 1)
          /\ wait = "POLLING" => (wait' \in ({"POLLING"} \cup TerminalWait))]_vars

C14_Witness ==
    /\ op = "click"
    /\ waits = 2
    /\ wait = "SATISFIED"
    /\ pc = "returned"

\* a poll of the wait found the element
FoundByPoll == \E k \in 1..Len(polled) : polled[k] = "found"

\* the wait ran out of time: every poll met NoSuchElementException
NeverFound ==
    /\ waits = 1
    /\ polled # <<>>
    /\ \A k \in 1..Len(polled) : polled[k] = "NoSuchElementException"

\* C17: is_element_present returns true exactly when a poll found the
\* element, false exactly when the wait timed out, and raises for any other
\* failure, such as a locator with an unknown strategy.
C17_IsElementPresent ==
    (op = "is_element_present" /\ Done)
        => /\ (ret = Return("True")) = FoundByPoll
           /\ (ret = Return("False")) = NeverFound
           /\ (~FoundByPoll /\ ~NeverFound)
                => /\ pc = "raised"
                   /\ ret.kind = "raise"
                   /\ ret.exc.type = "Exception"
                   /\ ret.exc.text = "Could Not Verify Element Presence"

C17_Witness ==
    /\ op = "is_element_present"
    /\ locator = StrLocator(<<"b", "o", "g", "u", "s">> \o Sep \o <<"d">>)
    /\ pc = "raised"
    /\ ret.exc.cause = "Incorrect locator specified"

---------------------------------------------------------------------------
(* Claims about error handling, checked under SpecOps *)

Last == history[Len(history)]

\* the resolver, the driver or an element raised an error in this attempt
ErrorArose(ev) ==
    \/ ev.result.kind = "raise"
    \/ ev.wait \notin {"skipped", "found", "false"}
    \/ ev.elem # NoExc
    \/ op \in SimpleOps /\ ResolvesLocator(op, locator)
                        /\ get_by_arg(locator).kind = "raise"

PresenceChecks ==
    {"is_element_present", "is_element_displayed", "is_child_element_present"}

\* the operation came back with a value although its last attempt met an error
ErrorSwallowed == pc = "returned" /\ history # <<>> /\ ErrorArose(Last)

\* every attempt but the last was followed by another one, within the budget
RetriedWithinBudget ==
    /\ Attempts <= Tries
    /\ (pc = "sleep" => tries > 0 /\ ErrorArose(Last))

\* C15 as stated: an error raised during an operation leads to a retry within
\* the budget or reaches the caller as an error; only is_element_present,
\* is_element_displayed and is_child_element_present turn it into a normal
\* return, the value false.
C15_OnlyPresenceChecksSwallow ==
    /\ RetriedWithinBudget
    /\ ErrorSwallowed => op \in PresenceChecks /\ ret = Return("False")

\* C15 amended: an error raised during an operation leads to a retry within
\* the budget or reaches the caller as an error, except that the three
\* presence checks return false, and wait_till_element_is_not_visible
\* returns true when a poll raises one of the errors its wait ignores.
C15_ErrorsRetriedRaisedOrAnswered ==
    /\ RetriedWithinBudget
    /\ ErrorSwallowed =>
          \/ op \in PresenceChecks /\ ret = Return("False")
          \/ /\ op = "wait_till_element_is_not_visible"
             /\ ret = Return("True")
             /\ Last.wait \in IgnoredBy(op)

C15_Witness ==
    /\ op = "wait_till_element_is_not_visible"
    /\ ErrorSwallowed
    /\ Last.wait = "NoSuchElementException"
    /\ ret = Return("True")

LocatorActions ==
    {"find_element", "find_elements", "click", "set_field", "get_text",
     "move_and_click", "wait_till_element_is_present",
     "wait_till_element_is_not_visible", "wait_till_element_is_visible",
     "wait_till_element_is_invisible", "wait_till_text_is_present_in_element",
     "wait_till_text_is_present_in_element_value"}

\* C16: a failure of a locator-taking action that reaches the caller is an
\* action-failed error (the wrapping Exception) that names the locator the
\* caller passed and carries the message of the original error.
C16_FailuresCarryLocatorAndMessage ==
    (op \in LocatorActions /\ locator.type = "str" /\ pc = "raised") =>
        /\ ret.exc.type = "Exception"
        /\ ret.exc.locator = locator.s
        /\ ret.exc.cause # ""

---------------------------------------------------------------------------
(* Claims about the collection hook, checked under SpecHook *)

HookDone == op = "pytest_collection_modifyitems" /\ pc = "returned"

\* the name of the item contains some token of --customseq
NameMatchesSome(item) ==
    \E i \in 1..Len(Tokens(customseq)) : Contains(item.name, Tokens(customseq)[i])

\* the first token of --customseq that the name of the item contains
FirstToken(item) ==
    CHOOSE i \in 1..Len(Tokens(customseq)) :
        /\ Contains(item.name, Tokens(customseq)[i])
        /\ \A j \in 1..(i - 1) : ~Contains(item.name, Tokens(customseq)[j])

\* C18: without --seq the hook leaves the collected list as it is; with
\* --seq the list holds exactly the items whose name contains some token of
\* --customseq, grouped in the order of the tokens and, within one token, in
\* collection order; items that match no token are removed.
C18_SelectedByNameInTokenOrder ==
    HookDone =>
        IF ~seq THEN items = collected
        ELSE /\ \A p \in 1..Len(items) : NameMatchesSome(items[p])
             /\ \A k \in 1..Len(collected) :
                   NameMatchesSome(collected[k]) =>
                       \E p \in 1..Len(items) : items[p] = collected[k]
             /\ \A p, q \in 1..Len(items) :
                   (p < q /\ NameMatchesSome(items[p]) /\ NameMatchesSome(items[q])) =>
                       \/ FirstToken(items[p]) < FirstToken(items[q])
                       \/ /\ FirstToken(items[p]) = FirstToken(items[q])
                          /\ items[p].nodeid <= items[q].nodeid

\* C19: with --seq, every collected item appears at most once in the
\* resulting list, so the list is never longer than the collected one.
C19_EachItemAtMostOnce ==
    (HookDone /\ seq) =>
        /\ \A p, q \in 1..Len(items) : items[p] = items[q] => p = q
        /\ Len(items) <= Len(collected)

---------------------------------------------------------------------------
(* Claims about the driver factory, checked under SpecFactory *)

FactoryDone == op = "get_web_driver" /\ pc \in {"returned", "raised"}

LocalDrivers == {"Firefox", "Ie", "Chrome", "Opera", "Safari"}

\* C20: with remote_flag false, get_web_driver returns a driver handle, not
\* None and not a failure, for every browser name of BrowserType and for the
\* default 'ff'; with remote_flag true it returns the remote driver and
\* starts no local browser.
C20_DriverForEveryBrowserType ==
    FactoryDone =>
        /\ (remote_flag = "False" /\ browser \in BrowserType \cup {DefaultBrowser}) =>
              /\ pc = "returned"
              /\ ret.value \in LocalDrivers
              /\ driver = ret.value
        /\ remote_flag = "True" =>
              /\ pc = "returned"
              /\ ret = Return("Remote")
              /\ \A k \in 1..Len(started) : started[k] \notin LocalDrivers

=============================================================================
